---- MODULE Spec2Model ----
(***************************************************************************)
(* Model of process_mining.py: the pipeline run by main()                  *)
(*   load_csv -> prepare_event_log -> compute_kpis -> discover_dfg         *)
(*   -> dfg_to_edges_df -> export_outputs -> maybe_view_dfg                *)
(* over a CSV event log (case_id, activity_name, timestamp).               *)
(*                                                                         *)
(* Representation.  Case ids and activity names are text labels; a label   *)
(* is a positive number here and the order of the numbers stands for the   *)
(* lexicographic order of the labels.  A raw timestamp is the text of the  *)
(* CSV cell; pd.to_datetime turns it into seconds or NaT (ParseTs).  A     *)
(* float is an exact rational [tag, num, den] in lowest terms, NaN and     *)
(* None are tagged values of the same shape.  A local variable of main     *)
(* that may not be assigned yet is a sequence of length 0 or 1.            *)
(* Every cell of case_id and activity_name holds a label: what pm4py does  *)
(* with empty cells is library code and is outside this model.             *)
(***************************************************************************)
EXTENDS Integers, Sequences, FiniteSets, TLC

VARIABLES
    input,      \* the CSV file named by --input: [exists, columns, rows]
    no_view,    \* args.no_view
    pc,         \* the statement of main() that runs next
    err,        \* the exception that ended main(), if any
    df_raw,     \* main: df_raw
    df_log,     \* main: df_log
    case_span,  \* compute_kpis: case_span["throughput_hours"], in seconds
    kpis,       \* main: kpis
    dfg,        \* main: dfg, start_acts, end_acts
    edges_df,   \* main: edges_df
    files,      \* what export_outputs wrote under --outdir
    viewed      \* whether p4.view_dfg was called

vars == <<input, no_view, pc, err, df_raw, df_log, case_span, kpis, dfg,
          edges_df, files, viewed>>

----------------------------------------------------------------------------
(* Bounds of the model and constants of the program *)

MaxRows == 3
MaxTrace == 5
MaxSpanCases == 3
MaxWide == 11

TopN == 10
SecondsPerHour == 3600
NaT == -1

REQUIRED_RAW_COLS == {"case_id", "activity_name", "timestamp"}

----------------------------------------------------------------------------
(* Generic helpers *)

Front(s) == SubSeq(s, 1, Len(s) - 1)

Last(s) == s[Len(s)]

Range(s) == {s[i] : i \in DOMAIN s}

Min2(a, b) == IF a <= b THEN a ELSE b

MinOf(S) == CHOOSE x \in S : \A y \in S : x <= y

MaxOf(S) == CHOOSE x \in S : \A y \in S : y <= x

RECURSIVE SumSeq(_)
SumSeq(s) == IF s = <<>> THEN 0 ELSE SumSeq(Front(s)) + Last(s)

RECURSIVE SumFun(_)
SumFun(f) ==
    IF DOMAIN f = {} THEN 0
    ELSE LET k == CHOOSE x \in DOMAIN f : TRUE
         IN  f[k] + SumFun([x \in DOMAIN f \ {k} |-> f[x]])

\* the sequences that list every element of S exactly once
Orderings(S) ==
    {s \in [1..Cardinality(S) -> S] : \A i, j \in DOMAIN s : i # j => s[i] # s[j]}

RECURSIVE Gcd(_, _)
Gcd(a, b) == IF b = 0 THEN a ELSE Gcd(b, a % b)

----------------------------------------------------------------------------
(* Python float, None and NaN *)

None == [tag |-> "None", num |-> 0, den |-> 1]

NaN == [tag |-> "nan", num |-> 0, den |-> 1]

\* the float n/d (n >= 0); a division 0/0 of an empty aggregate is NaN
Float(n, d) ==
    IF d = 0 THEN NaN
    ELSE LET g == Gcd(n, d) IN [tag |-> "float", num |-> n \div g, den |-> d \div g]

IsNumber(x) == x.tag = "float"

FloatLeq(x, y) == IsNumber(x) /\ IsNumber(y) /\ x.num * y.den <= y.num * x.den

----------------------------------------------------------------------------
(* The inputs *)

RawRow(c, a, t) == [case_id |-> c, activity_name |-> a, timestamp |-> t]

\* pd.to_datetime(..., errors="coerce") on one cell: seconds, or NaT
ParseTs(t) ==
    CASE t = "09:00" -> 9 * SecondsPerHour
      [] t = "09:30" -> 9 * SecondsPerHour + 1800
      [] t = "10:00" -> 10 * SecondsPerHour
      [] t = "11:00" -> 11 * SecondsPerHour
      [] t = "13:00" -> 13 * SecondsPerHour
      [] OTHER -> NaT

\* logs of up to MaxRows rows over two cases, two activities, two instants and
\* one cell that is no date
GeneralRows == {RawRow(c, a, t) : c \in {1, 2}, a \in {1, 2}, t \in {"09:00", "10:00", "n/a"}}

GeneralLogs == UNION {[1..n -> GeneralRows] : n \in 0..MaxRows}

\* one case of up to MaxTrace events at one instant: the input order is the trace
TraceLogs ==
    UNION {{[i \in 1..n |-> RawRow(1, f[i], "09:00")] : f \in [1..n -> {1, 2}]} :
           n \in 1..MaxTrace}

\* n cases of two events each, the closing event listed first
SpanTypes == {<<"10:00", "13:00">>, <<"09:00", "09:30">>, <<"09:00", "09:00">>, <<"09:00", "10:00">>}

SpanLog(f) ==
    [i \in 1..(2 * Len(f)) |->
        IF i % 2 = 1 THEN RawRow((i + 1) \div 2, 2, f[(i + 1) \div 2][2])
                     ELSE RawRow(i \div 2, 1, f[i \div 2][1])]

SpanLogs == UNION {{SpanLog(f) : f \in [1..n -> SpanTypes]} : n \in 2..MaxSpanCases}

\* n single-event cases; row i names activity i or activity 1
WideLogs ==
    UNION {{[i \in 1..n |-> RawRow(i, IF f[i] THEN i ELSE 1, "09:00")] :
                f \in [1..n -> BOOLEAN]} : n \in (MaxWide - 1)..MaxWide}

\* section 8 of the specification: case 1 order, ship, close; case 2 order, close
ScenarioLog ==
    << RawRow(1, 1, "10:00"), RawRow(2, 1, "09:00"), RawRow(1, 3, "11:00"),
       RawRow(2, 2, "09:30"), RawRow(1, 2, "13:00") >>

Logs == GeneralLogs \cup TraceLogs \cup SpanLogs \cup WideLogs \cup {ScenarioLog}

Inputs ==
    {[exists |-> FALSE, columns |-> {}, rows |-> <<>>]}
    \cup {[exists |-> TRUE, columns |-> c, rows |-> <<>>] :
            c \in {{"case_id", "timestamp"}, {"activity_name", "extra"}}}
    \cup {[exists |-> TRUE, columns |-> REQUIRED_RAW_COLS \cup x, rows |-> <<>>] :
            x \in {{"extra"}}}
    \cup {[exists |-> TRUE, columns |-> REQUIRED_RAW_COLS, rows |-> r] : r \in Logs}

----------------------------------------------------------------------------
(* load_csv *)

\* a load_csv that does not look at the columns
NoMissingCols(columns) == {}

\* REQUIRED_RAW_COLS - set(df.columns)
MissingCols(columns) == REQUIRED_RAW_COLS \ columns

----------------------------------------------------------------------------
(* prepare_event_log *)

\* lines 55-56 and 60-66: the three columns, the timestamp parsed, the columns renamed
Event(r) ==
    [case_concept_name |-> r.case_id, concept_name |-> r.activity_name,
     time_timestamp |-> ParseTs(r.timestamp)]

ParsedRows(rows) == [i \in DOMAIN rows |-> Event(rows[i])]

\* .any() where .sum() is meant: 1 however many rows are bad
BadCountAny(df) == IF \E i \in DOMAIN df : df[i].time_timestamp = NaT THEN 1 ELSE 0

\* int(df["timestamp"].isna().sum())
BadCount(df) == Cardinality({i \in DOMAIN df : df[i].time_timestamp = NaT})

\* an order that puts a later row before an earlier one of the same instant
RowLess(r, s) ==
    \/ r.case_concept_name < s.case_concept_name
    \/ /\ r.case_concept_name = s.case_concept_name
       /\ r.time_timestamp < s.time_timestamp

\* the order of sort_values(["case:concept:name", "time:timestamp"])
RowLeq(r, s) ==
    \/ r.case_concept_name < s.case_concept_name
    \/ /\ r.case_concept_name = s.case_concept_name
       /\ r.time_timestamp <= s.time_timestamp

\* one row put into a sorted frame behind every row that is not greater
RECURSIVE InsertRow(_, _)
InsertRow(sorted, r) ==
    IF sorted = <<>> THEN <<r>>
    ELSE IF RowLeq(Last(sorted), r) THEN Append(sorted, r)
    ELSE Append(InsertRow(Front(sorted), r), Last(sorted))

\* df.sort_values([case, time], kind="mergesort"): the stable sort
RECURSIVE SortValues(_)
SortValues(df) ==
    IF df = <<>> THEN <<>> ELSE InsertRow(SortValues(Front(df)), Last(df))

\* the order of pm4py's sort on (case, timestamp, @@index)
IndexedLeq(p, q) ==
    \/ p.row.case_concept_name < q.row.case_concept_name
    \/ /\ p.row.case_concept_name = q.row.case_concept_name
       /\ \/ p.row.time_timestamp < q.row.time_timestamp
          \/ /\ p.row.time_timestamp = q.row.time_timestamp
             /\ p.index <= q.index

RECURSIVE InsertIndexed(_, _)
InsertIndexed(sorted, p) ==
    IF sorted = <<>> THEN <<p>>
    ELSE IF IndexedLeq(Last(sorted), p) THEN Append(sorted, p)
    ELSE Append(InsertIndexed(Front(sorted), p), Last(sorted))

RECURSIVE SortIndexed(_)
SortIndexed(ps) ==
    IF ps = <<>> THEN <<>> ELSE InsertIndexed(SortIndexed(Front(ps)), Last(ps))

\* p4.format_dataframe: an index column is added, the frame is sorted on
\* (case, timestamp, index) and the three pm4py columns are kept
FormatDataframe(df) ==
    LET indexed == [i \in DOMAIN df |-> [row |-> df[i], index |-> i]]
        sorted == SortIndexed(indexed)
    IN  [i \in DOMAIN sorted |-> sorted[i].row]

----------------------------------------------------------------------------
(* compute_kpis *)

\* the values of df["case:concept:name"]
CaseIds(df) == {df[i].case_concept_name : i \in DOMAIN df}

\* the values of df["concept:name"]
ActivityNames(df) == {df[i].concept_name : i \in DOMAIN df}

\* df["concept:name"].value_counts().to_dict(), as a mapping
ValueCounts(df) ==
    [a \in ActivityNames(df) |-> Cardinality({i \in DOMAIN df : df[i].concept_name = a})]

\* the mapping reported whole, without the [:10]
AllActivities(vc) == {DOMAIN vc}

\* list(activity_freq.items())[:10]: value_counts lists the activities by
\* falling count and leaves the order of equal counts open, so the first ten
\* are any ten that no activity left out outnumbers
Top10Choices(vc) ==
    IF Cardinality(DOMAIN vc) <= TopN THEN {DOMAIN vc}
    ELSE {S \in SUBSET DOMAIN vc :
            /\ Cardinality(S) = TopN
            /\ \A a \in S, b \in DOMAIN vc \ S : vc[a] >= vc[b]}

\* the timestamps of the whole log, without the groupby
TimesOfLog(df, c) == {df[i].time_timestamp : i \in DOMAIN df}

TimesOf(df, c) == {df[i].time_timestamp : i \in {j \in DOMAIN df : df[j].case_concept_name = c}}

\* seconds / 3600.0
Hours(num, den) == Float(num, den * SecondsPerHour)

\* g.agg(start="min", end="max") and the column throughput_hours
CaseSpan(df) ==
    [c \in CaseIds(df) |->
        [start |-> MinOf(TimesOf(df, c)),
         end |-> MaxOf(TimesOf(df, c)),
         throughput_hours |-> Hours(MaxOf(TimesOf(df, c)) - MinOf(TimesOf(df, c)), 1)]]

\* a column of numbers in ascending order
RECURSIVE SortedValues(_)
SortedValues(f) ==
    IF DOMAIN f = {} THEN <<>>
    ELSE LET k == CHOOSE x \in DOMAIN f : \A y \in DOMAIN f : f[x] <= f[y]
         IN  <<f[k]>> \o SortedValues([x \in DOMAIN f \ {k} |-> f[x]])

\* the column throughput_hours in ascending order, each value in seconds: the
\* statistics below divide by 3600 at the end, which is the same rational
Throughputs(df) ==
    SortedValues([c \in CaseIds(df) |-> CaseSpan(df)[c].end - CaseSpan(df)[c].start])

\* Series.mean()
Mean(s) == Hours(SumSeq(s), Len(s))

\* the upper middle value, without the mean of the two
MedianUpper(s) == IF s = <<>> THEN NaN ELSE Hours(s[Len(s) \div 2 + 1], 1)

\* Series.median(): the middle value, or the mean of the two middle values
Median(s) ==
    IF s = <<>> THEN NaN
    ELSE IF Len(s) % 2 = 1 THEN Hours(s[(Len(s) + 1) \div 2], 1)
    ELSE Hours(s[Len(s) \div 2] + s[Len(s) \div 2 + 1], 2)

\* Series.min(), Series.max()
SeriesMin(s) == IF s = <<>> THEN NaN ELSE Hours(s[1], 1)

SeriesMax(s) == IF s = <<>> THEN NaN ELSE Hours(s[Len(s)], 1)

\* Series.quantile(pn/pd), interpolation "linear": index (N-1)*q, the fraction
\* of the index taken between the two neighbours
Quantile(s, pn, pd) ==
    IF s = <<>> THEN NaN
    ELSE LET h == pn * (Len(s) - 1)
             lo == h \div pd + 1
             hi == Min2(lo + 1, Len(s))
         IN  Hours(s[lo] * pd + (h % pd) * (s[hi] - s[lo]), pd)

\* str(df["time:timestamp"].min()) and .max(): NaT for an empty frame
TimeWindow(df) ==
    IF df = <<>> THEN [first_event |-> NaT, last_event |-> NaT]
    ELSE [first_event |-> MinOf({df[i].time_timestamp : i \in DOMAIN df}),
          last_event |-> MaxOf({df[i].time_timestamp : i \in DOMAIN df})]

\* n_events / n_cases if n_cases else None
AvgEventsPerCase(n_events, n_cases) ==
    IF n_cases # 0 THEN Float(n_events, n_cases) ELSE None

Kpis(df, top) ==
    [cases |-> Cardinality(CaseIds(df)),
     events |-> Len(df),
     unique_activities |-> Cardinality(ActivityNames(df)),
     avg_events_per_case |-> AvgEventsPerCase(Len(df), Cardinality(CaseIds(df))),
     time_window |-> TimeWindow(df),
     throughput_hours |->
        [mean |-> Mean(Throughputs(df)),
         median |-> Median(Throughputs(df)),
         min |-> SeriesMin(Throughputs(df)),
         max |-> SeriesMax(Throughputs(df)),
         p95 |-> Quantile(Throughputs(df), 95, 100)],
     activity_frequency_top10 |-> [a \in top |-> ValueCounts(df)[a]]]

----------------------------------------------------------------------------
(* discover_dfg: p4.discover_dfg on a frame *)

\* every row but the last, whatever the case of the next row
FollowsAcrossCases(df) == 1..(Len(df) - 1)

\* the rows whose next row belongs to the same case
Follows(df) ==
    {i \in 1..(Len(df) - 1) : df[i].case_concept_name = df[i + 1].case_concept_name}

EdgeAt(df, i) == <<df[i].concept_name, df[i + 1].concept_name>>

\* the directly-follows counts, keyed by (source, target)
DfgCounts(df) ==
    [k \in {EdgeAt(df, i) : i \in Follows(df)} |->
        Cardinality({i \in Follows(df) : EdgeAt(df, i) = k})]

FirstRows(df) ==
    {MinOf({i \in DOMAIN df : df[i].case_concept_name = c}) : c \in CaseIds(df)}

\* the first row of each case taken for its last
FirstRowsAgain(df) == FirstRows(df)

LastRows(df) ==
    {MaxOf({i \in DOMAIN df : df[i].case_concept_name = c}) : c \in CaseIds(df)}

\* the number of the rows in `at` per activity
CountActivities(df, at) ==
    [a \in {df[i].concept_name : i \in at} |->
        Cardinality({i \in at : df[i].concept_name = a})]

StartActivities(df) == CountActivities(df, FirstRows(df))

EndActivities(df) == CountActivities(df, LastRows(df))

\* the dict in one order of its keys
DfgItems(counts, order) ==
    [i \in DOMAIN order |->
        [source |-> order[i][1], target |-> order[i][2], frequency |-> counts[order[i]]]]

----------------------------------------------------------------------------
(* dfg_to_edges_df *)

\* the sort without ascending=False
SortedByFrequencyAscending(rows) ==
    {s \in Orderings(Range(rows)) :
        \A i \in 1..(Len(s) - 1) : s[i].frequency <= s[i + 1].frequency}

\* sort_values("frequency", ascending=False): the default sort is not stable,
\* so rows of equal frequency come in any order
SortedByFrequency(rows) ==
    {s \in Orderings(Range(rows)) :
        \A i \in 1..(Len(s) - 1) : s[i].frequency >= s[i + 1].frequency}

----------------------------------------------------------------------------
(* export_outputs *)

\* f"{x:.2f}": the float in hundredths, halves rounded up; nan stays nan
Fmt2(x) ==
    IF IsNumber(x)
    THEN [tag |-> "float", num |-> (2 * 100 * x.num + x.den) \div (2 * x.den), den |-> 100]
    ELSE x

\* edges_df.head(10)
HeadRows(df, n) == SubSeq(df, 1, Min2(n, Len(df)))

Summary(k, edges) ==
    [cases |-> k.cases,
     events |-> k.events,
     unique_activities |-> k.unique_activities,
     time_window |-> k.time_window,
     throughput_hours |-> [f \in DOMAIN k.throughput_hours |-> Fmt2(k.throughput_hours[f])],
     top_transitions |-> HeadRows(edges, TopN)]

NoFiles == [kpis_json |-> <<>>, dfg_edges_csv |-> <<>>, summary_md |-> <<>>]

----------------------------------------------------------------------------
(* main *)

NoError == <<>>

Error(type, stage, bad, missing) ==
    <<[type |-> type, stage |-> stage, bad |-> bad, missing |-> missing]>>

Init ==
    /\ input \in Inputs
    /\ no_view \in BOOLEAN
    /\ pc = "load_csv"
    /\ err = NoError
    /\ df_raw = <<>>
    /\ df_log = <<>>
    /\ case_span = <<>>
    /\ kpis = <<>>
    /\ dfg = <<>>
    /\ edges_df = <<>>
    /\ files = NoFiles
    /\ viewed = FALSE

\* an exception leaves main: nothing after the raising statement runs
Raise(e) ==
    /\ pc' = "raised"
    /\ err' = e

\* df_raw = load_csv(args.input)
LoadCsv ==
    /\ pc = "load_csv"
    /\ IF ~input.exists
       THEN Raise(Error("FileNotFoundError", "load_csv", 0, {})) /\ UNCHANGED df_raw
       ELSE IF MissingCols(input.columns) # {}
       THEN /\ Raise(Error("ValueError", "load_csv", 0, MissingCols(input.columns)))
            /\ UNCHANGED df_raw
       ELSE /\ df_raw' = <<input.rows>>
            /\ pc' = "prepare_event_log"
            /\ UNCHANGED err
    /\ UNCHANGED <<input, no_view, df_log, case_span, kpis, dfg, edges_df, files, viewed>>

\* df_log = prepare_event_log(df_raw)
PrepareEventLog ==
    /\ pc = "prepare_event_log"
    /\ LET df == ParsedRows(df_raw[1])
       IN  IF BadCount(df) > 0
           THEN /\ Raise(Error("ValueError", "prepare_event_log", BadCount(df), {}))
                /\ UNCHANGED df_log
           ELSE /\ df_log' = <<FormatDataframe(SortValues(df))>>
                /\ pc' = "compute_kpis"
                /\ UNCHANGED err
    /\ UNCHANGED <<input, no_view, df_raw, case_span, kpis, dfg, edges_df, files, viewed>>

\* kpis = compute_kpis(df_log)
ComputeKpis ==
    /\ pc = "compute_kpis"
    /\ \E top \in Top10Choices(ValueCounts(df_log[1])) :
          kpis' = <<Kpis(df_log[1], top)>>
    /\ case_span' = <<CaseSpan(df_log[1])>>
    /\ pc' = "discover_dfg"
    /\ UNCHANGED <<input, no_view, err, df_raw, df_log, dfg, edges_df, files, viewed>>

\* dfg, start_acts, end_acts = discover_dfg(df_log); the order of the keys of
\* the dict is pm4py's choice
DiscoverDfg ==
    /\ pc = "discover_dfg"
    /\ \E order \in Orderings(DOMAIN DfgCounts(df_log[1])) :
          dfg' = <<[dfg |-> DfgItems(DfgCounts(df_log[1]), order),
                    start_acts |-> StartActivities(df_log[1]),
                    end_acts |-> EndActivities(df_log[1])]>>
    /\ pc' = "dfg_to_edges_df"
    /\ UNCHANGED <<input, no_view, err, df_raw, df_log, case_span, kpis, edges_df, files, viewed>>

\* edges_df = dfg_to_edges_df(dfg): pd.DataFrame([]) has no column "frequency"
\* and sort_values raises KeyError
DfgToEdgesDf ==
    /\ pc = "dfg_to_edges_df"
    /\ IF dfg[1].dfg = <<>>
       THEN Raise(Error("KeyError", "dfg_to_edges_df", 0, {"frequency"})) /\ UNCHANGED edges_df
       ELSE /\ \E s \in SortedByFrequency(dfg[1].dfg) : edges_df' = <<s>>
            /\ pc' = "export_outputs"
            /\ UNCHANGED err
    /\ UNCHANGED <<input, no_view, df_raw, df_log, case_span, kpis, dfg, files, viewed>>

\* export_outputs(args.outdir, kpis, edges_df)
ExportOutputs ==
    /\ pc = "export_outputs"
    /\ files' = [kpis_json |-> kpis,
                 dfg_edges_csv |-> edges_df,
                 summary_md |-> <<Summary(kpis[1], edges_df[1])>>]
    /\ pc' = "maybe_view_dfg"
    /\ UNCHANGED <<input, no_view, err, df_raw, df_log, case_span, kpis, dfg, edges_df, viewed>>

\* maybe_view_dfg(df_log, args.no_view)
MaybeViewDfg ==
    /\ pc = "maybe_view_dfg"
    /\ viewed' = ~no_view
    /\ pc' = "done"
    /\ UNCHANGED <<input, no_view, err, df_raw, df_log, case_span, kpis, dfg, edges_df, files>>

Next ==
    \/ LoadCsv
    \/ PrepareEventLog
    \/ ComputeKpis
    \/ DiscoverDfg
    \/ DfgToEdgesDf
    \/ ExportOutputs
    \/ MaybeViewDfg

Spec == Init /\ [][Next]_vars

----------------------------------------------------------------------------
(* What the properties below read: the input as the file holds it, and the  *)
(* log case by case.                                                        *)

ValidHeader == input.exists /\ REQUIRED_RAW_COLS \subseteq input.columns

\* the rows of the file whose timestamp cell pd.to_datetime cannot parse
UnparseableRows == {i \in DOMAIN input.rows : ParseTs(input.rows[i].timestamp) = NaT}

InputCases == {input.rows[i].case_id : i \in DOMAIN input.rows}

\* the events of case c in the order of the frame
Trace(df, c) == SelectSeq(df, LAMBDA r : r.case_concept_name = c)

\* how often b directly follows a within the cases of the frame
PairCount(df, a, b) ==
    SumFun([c \in {df[i].case_concept_name : i \in DOMAIN df} |->
        LET tr == Trace(df, c)
        IN  Cardinality({j \in 1..(Len(tr) - 1) :
                tr[j].concept_name = a /\ tr[j + 1].concept_name = b})])

\* how often value v occurs in sequence s
Occurrences(s, v) == Cardinality({i \in DOMAIN s : s[i] = v})

----------------------------------------------------------------------------
\* C1: the frequencies of the edges discover_dfg returns add up to the sum over
\* the cases of (number of events - 1); every edge counts the adjacent pairs
\* inside the cases' own sequences and nothing else, no edge has frequency
\* below 1 and no edge is listed twice.
EdgeConservation ==
    dfg # <<>> =>
        LET log == df_log[1]
            items == dfg[1].dfg
        IN  /\ SumFun([i \in DOMAIN items |-> items[i].frequency])
                 = SumFun([c \in InputCases |-> Len(Trace(log, c)) - 1])
            /\ \A i \in DOMAIN items :
                  /\ items[i].frequency >= 1
                  /\ items[i].frequency = PairCount(log, items[i].source, items[i].target)
            /\ \A i, j \in DOMAIN items :
                  i # j => <<items[i].source, items[i].target>> # <<items[j].source, items[j].target>>
            /\ \A c \in InputCases :
                  LET tr == Trace(log, c)
                  IN  \A j \in 1..(Len(tr) - 1) :
                         \E i \in DOMAIN items :
                            /\ items[i].source = tr[j].concept_name
                            /\ items[i].target = tr[j + 1].concept_name

\* two cases of two events or more each, one edge seen twice
EdgeConservationWitness ==
    /\ dfg # <<>>
    /\ Cardinality({c \in InputCases : Len(Trace(df_log[1], c)) >= 2}) >= 2
    /\ \E i \in DOMAIN dfg[1].dfg : dfg[1].dfg[i].frequency >= 2

\* C2: the start counts add up to the number of cases of the input and so do
\* the end counts; each activity's start (end) count is the number of cases it
\* opens (closes), so a case of one event counts once in both for its one
\* activity, and a log of one-event cases has no edge.
StartEndTotals ==
    dfg # <<>> =>
        LET log == df_log[1]
            starts == dfg[1].start_acts
            ends == dfg[1].end_acts
        IN  /\ SumFun(starts) = Cardinality(InputCases)
            /\ SumFun(ends) = Cardinality(InputCases)
            /\ \A a \in DOMAIN starts :
                  starts[a] = Cardinality({c \in InputCases : Trace(log, c)[1].concept_name = a})
            /\ \A a \in DOMAIN ends :
                  ends[a] = Cardinality({c \in InputCases : Last(Trace(log, c)).concept_name = a})
            /\ \A c \in InputCases :
                  Len(Trace(log, c)) = 1 =>
                      /\ Trace(log, c)[1].concept_name \in DOMAIN starts
                      /\ Trace(log, c)[1].concept_name \in DOMAIN ends
            /\ (\A c \in InputCases : Len(Trace(log, c)) = 1) => dfg[1].dfg = <<>>

\* a case of one event beside a case whose first and last activity differ
StartEndTotalsWitness ==
    /\ dfg # <<>>
    /\ \E c, d \in InputCases :
          /\ Len(Trace(df_log[1], c)) = 1
          /\ Len(Trace(df_log[1], d)) >= 2
          /\ Trace(df_log[1], d)[1].concept_name # Last(Trace(df_log[1], d)).concept_name

\* C3: when a row of a well-formed file has a timestamp that does not parse,
\* main never gets past prepare_event_log: the exception carries the number of
\* such rows, and no log, KPI, DFG, edge table, file or view is produced.
InvalidTimestampsAbort ==
    (ValidHeader /\ UnparseableRows # {}) =>
        /\ pc \in {"load_csv", "prepare_event_log", "raised"}
        /\ df_log = <<>> /\ case_span = <<>> /\ kpis = <<>> /\ dfg = <<>>
        /\ edges_df = <<>> /\ files = NoFiles /\ ~viewed
        /\ pc = "raised" =>
              err = Error("ValueError", "prepare_event_log", Cardinality(UnparseableRows), {})

\* two bad rows beside a good one
InvalidTimestampsWitness ==
    /\ pc = "raised"
    /\ err # NoError
    /\ err[1].stage = "prepare_event_log"
    /\ err[1].bad = 2
    /\ Len(input.rows) = 3

\* C4 (as the specification states it): a well-formed file of zero rows runs
\* through without an exception, with zero counts, no average, no throughput
\* statistic and an empty edge table.
EmptyLogHandled ==
    (ValidHeader /\ input.rows = <<>>) =>
        /\ pc # "raised"
        /\ kpis # <<>> =>
              /\ kpis[1].cases = 0
              /\ kpis[1].events = 0
              /\ kpis[1].avg_events_per_case = None
              /\ \A f \in DOMAIN kpis[1].throughput_hours : kpis[1].throughput_hours[f] = None
        /\ pc \in {"export_outputs", "maybe_view_dfg", "done"} => edges_df = << <<>> >>

\* C5 (as the specification states it): the edge table is in the one order
\* fixed by falling frequency, then source, then target.
EdgesOrderedByNames ==
    edges_df # <<>> =>
        \A i, j \in DOMAIN edges_df[1] :
            i < j =>
                \/ edges_df[1][i].frequency > edges_df[1][j].frequency
                \/ /\ edges_df[1][i].frequency = edges_df[1][j].frequency
                   /\ \/ edges_df[1][i].source < edges_df[1][j].source
                      \/ /\ edges_df[1][i].source = edges_df[1][j].source
                         /\ edges_df[1][i].target < edges_df[1][j].target

\* C5 (amended): the edge table lists every edge of the DFG once, with its
\* frequency, and no row has a higher frequency than a row before it.
EdgesSortedByFrequency ==
    edges_df # <<>> =>
        /\ Len(edges_df[1]) = Len(dfg[1].dfg)
        /\ Range(edges_df[1]) = Range(dfg[1].dfg)
        /\ \A i, j \in DOMAIN edges_df[1] :
              i < j => edges_df[1][i].frequency >= edges_df[1][j].frequency

\* a table with a tie below a higher frequency
EdgesSortedWitness ==
    /\ edges_df # <<>>
    /\ Len(edges_df[1]) >= 3
    /\ edges_df[1][1].frequency > edges_df[1][2].frequency
    /\ edges_df[1][2].frequency = edges_df[1][3].frequency

KpiEventsEqualReported ==
    kpis # <<>> =>
        /\ kpis[1].events = SumFun(kpis[1].activity_frequency_top10)
        /\ kpis[1].cases = Cardinality(InputCases)

\* C7 (amended): the event count is the number of input rows and equals the sum
\* of the frequencies of all activities; the reported mapping holds at most ten
\* activities, each with its frequency, and its sum equals the event count when
\* the log has at most ten distinct activities and is below it otherwise; the
\* case count is the number of distinct case ids.
KpiConsistency ==
    kpis # <<>> =>
        LET k == kpis[1]
            acts == {input.rows[i].activity_name : i \in DOMAIN input.rows}
            freq == [a \in acts |->
                        Cardinality({i \in DOMAIN input.rows : input.rows[i].activity_name = a})]
            top == k.activity_frequency_top10
        IN  /\ k.cases = Cardinality(InputCases)
            /\ k.events = Len(input.rows)
            /\ k.events = SumFun(freq)
            /\ k.unique_activities = Cardinality(acts)
            /\ DOMAIN top \subseteq acts
            /\ \A a \in DOMAIN top : top[a] = freq[a]
            /\ Cardinality(DOMAIN top) = Min2(TopN, Cardinality(acts))
            /\ Cardinality(acts) <= TopN => SumFun(top) = k.events
            /\ Cardinality(acts) > TopN => SumFun(top) < k.events

\* a log of more than ten distinct activities
KpiConsistencyWitness ==
    /\ kpis # <<>>
    /\ kpis[1].unique_activities > TopN
    /\ SumFun(kpis[1].activity_frequency_top10) < kpis[1].events

\* the value at index p * (N - 1) of the ascending column s (in seconds), taken
\* linearly between the two values around that index, in hours
AtPosition(s, x, pn, pd) ==
    \E k \in DOMAIN s, r \in 0..(pd - 1) :
        /\ pn * (Len(s) - 1) = (k - 1) * pd + r
        /\ x = Float((pd - r) * s[k] + r * s[Min2(k + 1, Len(s))], pd * SecondsPerHour)

\* C8: with one case or more, min <= median <= p95 <= max; the median and the
\* p95 are the values at index 0.5 * (N - 1) and 0.95 * (N - 1) of the sorted
\* throughputs, taken linearly between the neighbours; throughputs of 3.0 and
\* 0.5 hours give mean 1.75, median 1.75, min 0.5 and max 3.0.
ThroughputStatistics ==
    (kpis # <<>> /\ kpis[1].cases > 0) =>
        LET th == kpis[1].throughput_hours
            s == SortedValues([c \in DOMAIN case_span[1] |->
                     case_span[1][c].end - case_span[1][c].start])
        IN  /\ FloatLeq(th.min, th.median)
            /\ FloatLeq(th.median, th.p95)
            /\ FloatLeq(th.p95, th.max)
            /\ AtPosition(s, th.median, 1, 2)
            /\ AtPosition(s, th.p95, 95, 100)
            /\ th.min = Float(s[1], SecondsPerHour)
            /\ th.max = Float(s[Len(s)], SecondsPerHour)
            /\ s = <<1800, 10800>> =>
                  /\ th.mean = Float(7, 4)
                  /\ th.median = Float(7, 4)
                  /\ th.min = Float(1, 2)
                  /\ th.max = Float(3, 1)

\* the scenario of the specification: throughputs of 3.0 and 0.5 hours
ThroughputStatisticsWitness ==
    /\ kpis # <<>>
    /\ input.rows = ScenarioLog
    /\ kpis[1].throughput_hours.mean = Float(7, 4)
    /\ kpis[1].throughput_hours.p95 # kpis[1].throughput_hours.max

\* C9: the throughput compute_kpis takes for a case (max - min timestamp, in
\* hours) is the timestamp of the case's last event minus that of its first
\* event in the sorted log; it is not negative and it is 0 for a case of one
\* event; the time window is the least and the greatest timestamp of all events.
ThroughputIsLastMinusFirst ==
    (case_span # <<>> /\ kpis # <<>>) =>
        LET log == df_log[1]
            times == {ParseTs(input.rows[i].timestamp) : i \in DOMAIN input.rows}
        IN  /\ DOMAIN case_span[1] = InputCases
            /\ \A c \in InputCases :
                  LET tr == Trace(log, c)
                      th == case_span[1][c].throughput_hours
                  IN  /\ IsNumber(th)
                      /\ th.num * SecondsPerHour = (Last(tr).time_timestamp - tr[1].time_timestamp) * th.den
                      /\ th.num >= 0 /\ th.den > 0
                      /\ Len(tr) = 1 => th.num = 0
            /\ log # <<>> =>
                  /\ kpis[1].time_window.first_event \in times
                  /\ kpis[1].time_window.last_event \in times
                  /\ \A t \in times : /\ kpis[1].time_window.first_event <= t
                                      /\ t <= kpis[1].time_window.last_event

\* a case of one event beside a case that takes time and starts at another
\* instant
ThroughputWitness ==
    /\ case_span # <<>>
    /\ kpis # <<>>
    /\ \E c, d \in InputCases :
          /\ Len(Trace(df_log[1], c)) = 1
          /\ case_span[1][d].throughput_hours.num > 0
          /\ case_span[1][c].start # case_span[1][d].start
    /\ kpis[1].time_window.first_event < kpis[1].time_window.last_event

StageOrder ==
    { <<"load_csv", "prepare_event_log">>, <<"prepare_event_log", "compute_kpis">>,
      <<"compute_kpis", "discover_dfg">>, <<"discover_dfg", "dfg_to_edges_df">>,
      <<"dfg_to_edges_df", "export_outputs">>, <<"export_outputs", "maybe_view_dfg">>,
      <<"maybe_view_dfg", "done">> }

\* what holds of every state of a run of main
NoOutputUnlessAllSucceeded ==
    /\ ~ValidHeader =>
          /\ pc \in {"load_csv", "raised"}
          /\ df_raw = <<>> /\ df_log = <<>> /\ kpis = <<>> /\ dfg = <<>> /\ edges_df = <<>>
    /\ files # NoFiles =>
          /\ err = NoError
          /\ pc \in {"maybe_view_dfg", "done"}
          /\ df_raw # <<>> /\ df_log # <<>> /\ kpis # <<>> /\ dfg # <<>> /\ edges_df # <<>>
          /\ files.kpis_json = kpis
          /\ files.dfg_edges_csv = edges_df
    /\ pc = "raised" => (err # NoError /\ files = NoFiles /\ ~viewed)
    /\ viewed => (pc = "done" /\ files # NoFiles /\ ~no_view)
    /\ pc = "done" => (files # NoFiles /\ viewed = ~no_view)

\* what holds of every step of a run of main
StagesInOrder ==
    /\ pc' # pc =>
          \/ <<pc, pc'>> \in StageOrder
          \/ pc' = "raised" /\ pc \in {"load_csv", "prepare_event_log", "dfg_to_edges_df"}
    /\ pc \in {"raised", "done"} => UNCHANGED vars
    /\ files' # files => pc = "export_outputs"
    /\ df_log # <<>> => df_log' = df_log
    /\ kpis' # kpis => (pc = "compute_kpis" /\ df_log' = df_log /\ dfg' = dfg)
    /\ dfg' # dfg => (pc = "discover_dfg" /\ df_log' = df_log /\ kpis' = kpis)

\* C10: the stages of main run in the order load, prepare, KPIs, DFG, edge
\* table, export, view; files are written by the export stage alone and only
\* when every stage before it returned; once a stage raises nothing runs and no
\* file exists; the KPI and the DFG stage leave the log, and each other's
\* result, as they found them.
PipelineOrder == [](NoOutputUnlessAllSucceeded) /\ [][StagesInOrder]_vars

\* a run that raised after the KPIs and the DFG were computed, with no file
PipelineOrderWitness ==
    /\ pc = "raised"
    /\ err[1].stage = "dfg_to_edges_df"
    /\ kpis # <<>>
    /\ dfg # <<>>
    /\ files = NoFiles

====
